---- MODULE Spec2Model ----
(***************************************************************************)
(* Deployment decision workflow of vscode-azureappservice.                 *)
(*                                                                         *)
(*   deploy                      src/src/commands/deploy/deploy.ts         *)
(*   setPreDeployTaskForDotnet   src/src/commands/deploy/                  *)
(*                                   setPreDeployTaskForDotnet.ts          *)
(*   showWorkspaceFoldersQuickPick, parseAzureResourceId   src/src/util.ts *)
(*                                                                         *)
(* Every action is the code between two suspension points (await) of an    *)
(* async function.  Spec is the deploy entry point; SpecPolicy is the      *)
(* dotnet pre-deploy policy, which deploy.ts of this revision does not     *)
(* call and which is therefore run on its own, one run after the other;    *)
(* SpecConcurrent is the same policy with runs in progress together;       *)
(* SpecParse is a call of parseAzureResourceId on a resource ID.           *)
(***************************************************************************)
EXTENDS Integers, Sequences, FiniteSets, TLC

VARIABLES
    inv,                    \* deploy: invocation -> locals of that call of deploy()
    exists,                 \* deploy: the web apps present in the tree
    defaultWebAppToDeploy,  \* deploy: workspace setting appService.defaultWebAppToDeploy
    run,                    \* policy: run -> locals of that call of setPreDeployTaskForDotnet()
    settings,               \* policy: workspace settings showPreDeployWarning, preDeployTask, deploySubpath
    tasks,                  \* policy: the task definitions of the workspace (tasks.json)
    fs,                     \* policy: the .csproj layout of the workspace folder
    written,                \* policy: history, the setting keys the policy has written
    parse                   \* util: the locals of a call of parseAzureResourceId()

vars == <<inv, exists, defaultWebAppToDeploy, run, settings, tasks, fs, written, parse>>
utilVars == <<parse>>
deployVars == <<inv, exists, defaultWebAppToDeploy>>
policyVars == <<run, settings, tasks, fs, written>>

(***************************************************************************)
(* Bounds.                                                                 *)
(***************************************************************************)
MaxInv == 2             \* nested calls of deploy (Reset default re-invokes the command)
NumSites == 2           \* web apps that can exist or be created
NumRuns == 2            \* runs of the pre-deploy policy on the workspace
MaxRootCsproj == 2      \* .csproj files directly in the workspace folder
MaxIdLen == 8           \* atoms of a resource ID given to parseAzureResourceId
NumSubfolders == 2      \* immediate subfolders of the workspace folder
MaxSubCsproj == 1       \* .csproj files in one subfolder

Inv == 1..MaxInv
Sites == 1..NumSites
InitialSites == {1}     \* the web apps in the tree at the start; the others are created later
NoNode == 0
Unset == "undefined"

(***************************************************************************)
(* Strings the code inspects character by character are sequences of       *)
(* characters; toLowerCase and startsWith are computed on them.            *)
(***************************************************************************)
Lower(c) ==
    CASE c = "N" -> "n" [] c = "O" -> "o" [] c = "D" -> "d" [] c = "E" -> "e"
      [] c = "P" -> "p" [] c = "Y" -> "y" [] c = "T" -> "t" [] c = "H" -> "h"
      [] c = "J" -> "j" [] c = "A" -> "a" [] c = "V" -> "v"
      [] OTHER -> c

toLowerCase(s) == [k \in 1..Len(s) |-> Lower(s[k])]

startsWith(s, p) == Len(s) >= Len(p) /\ SubSeq(s, 1, Len(p)) = p

LinuxRuntimesNode == <<"n", "o", "d", "e">>
LinuxRuntimesPython == <<"p", "y", "t", "h", "o", "n">>
JavaPrefix == <<"j", "a", "v", "a">>

\* An absent (or empty) linuxFxVersion: both are falsy wherever deploy() reads it.
NoFx == <<>>

\* linuxFxVersion of a site config: absent, or a stack identifier.
LinuxFxVersions ==
    { NoFx,
      <<"N", "O", "D", "E", "|", "8">>,
      <<"p", "y", "t", "h", "o", "n", "|", "3">>,
      <<"J", "A", "V", "A", "|", "8">>,
      <<"P", "H", "P", "|", "7">> }

ScmTypes == {"None", "LocalGit", "GitHub"}

\* The site configs a call can get: every stack with scmType None; with the two git
\* scmTypes, under which line 112 is false whatever the stack, no stack and the java one.
SiteConfigs ==
    { cfg \in [scmType : ScmTypes, linuxFxVersion : LinuxFxVersions] :
         \/ cfg.scmType = "None"
         \/ cfg.linuxFxVersion \in {NoFx, <<"J", "A", "V", "A", "|", "8">>} }
NoConfig == [scmType |-> Unset, linuxFxVersion |-> NoFx]

\* javaUtils.isJavaRuntime: case-insensitive prefix match on the stack identifier.
isJavaRuntime(fx) == fx # NoFx /\ startsWith(toLowerCase(fx), JavaPrefix)

(***************************************************************************)
(* deploy(): the locals of one call.                                       *)
(*   arg is the confirmDeployment argument as passed; log is the history   *)
(*   of the effects the call has had so far, in order.                     *)
(***************************************************************************)
Paths == {"inside", "outside"}  \* in an open workspace folder, or in none

\* workspaceUtil.getContainingWorkspace: the open workspace folder holding the path.
getContainingWorkspace(p) == IF p = "outside" THEN Unset ELSE "ws"

Targets ==
    {[kind |-> "none", site |-> NoNode, path |-> Unset]}
    \cup {[kind |-> "uri", site |-> NoNode, path |-> p] : p \in Paths}
    \cup {[kind |-> "item", site |-> s, path |-> Unset] : s \in Sites}

Idle ==
    [ pc |-> "idle", target |-> [kind |-> "none", site |-> NoNode, path |-> Unset],
      arg |-> FALSE, confirmDeployment |-> FALSE, node |-> NoNode, newNodes |-> <<>>,
      listener |-> FALSE, siteConfig |-> NoConfig, deployFsPath |-> Unset,
      workspace |-> Unset, deployedWithConfigs |-> FALSE, cancelStep |-> Unset,
      error |-> "", answer |-> "", detached |-> {}, failed |-> {}, log |-> <<>> ]

\* A call of deploy(context, confirmDeployment, target) about to run line 32.
Entered(confirm, target) ==
    [Idle EXCEPT !.pc = "start", !.arg = confirm, !.confirmDeployment = confirm,
                 !.target = target]

Terminal(r) == r.pc \in {"returned", "raised"}

Throw(r, err) == [r EXCEPT !.pc = "raised", !.error = err]

Did(r, e) == \E k \in 1..Len(r.log) : r.log[k] = e
Count(r, e) == Cardinality({k \in 1..Len(r.log) : r.log[k] = e})
Before(r, a, b) ==
    \A k \in 1..Len(r.log) : r.log[k] = b => \E j \in 1..(k - 1) : r.log[j] = a

Log(r, e) == [r EXCEPT !.log = Append(@, e)]

(***************************************************************************)
(* The synchronous stretches of deploy(), from a source line to the next   *)
(* await.  Each maps the locals to the locals at that await.               *)
(***************************************************************************)

\* Lines 152-157: promptToSaveDeployDefaults is not awaited; runPreDeployTask is.
FromLine152(r) ==
    LET r1 == IF ~r.deployedWithConfigs THEN Log(r, "promptToSaveDeployDefaults") ELSE r
    IN  [Log(r1, "runPreDeployTask") EXCEPT !.pc = "runPreDeployTask"]

\* Line 125, third conjunct: siteConfig !== constants.ScmType.GitHub compares the
\* SiteConfigResource object itself with a string; an object is never identical to
\* a string, so the conjunct is true whatever the scmType.
SiteConfigIsNotGitHub(cfg) == cfg \in SiteConfigs

\* Line 125: the condition under which the confirmation modal is shown.
ShowsConfirmation(r) ==
    /\ r.confirmDeployment
    /\ r.siteConfig.scmType # "LocalGit"
    /\ SiteConfigIsNotGitHub(r.siteConfig)

\* Lines 125-137: set the cancel marker and wait 500 ms, or skip the gate.
FromLine125(r) ==
    IF ShowsConfirmation(r)
    THEN [r EXCEPT !.cancelStep = "confirmDestructiveDeployment", !.pc = "delay"]
    ELSE FromLine152(r)

\* Lines 111-113: b is the showBuildDuringDeployPrompt setting as read here.
FromLine111(r, b) ==
    IF b /\ r.siteConfig.linuxFxVersion # NoFx /\ r.siteConfig.scmType = "None"
    THEN [Log(r, "pathExists") EXCEPT !.pc = "pathExists"]
    ELSE FromLine125(r)

\* Lines 100-101.
FromLine100(r, b) ==
    IF isJavaRuntime(r.siteConfig.linuxFxVersion)
    THEN [r EXCEPT !.pc = "findFilesByFileExtension"]
    ELSE FromLine111(r, b)

\* Faulty variant: the loop finds the new node and leaves confirmDeployment as passed.
StifleForNewNodesKeepsConfirm(r) ==
    IF \E k \in 1..Len(r.newNodes) : r.newNodes[k] = r.node
    THEN Log(r, "getSiteConfig")
    ELSE r

\* Lines 77-92: the loop over the nodes created during selection.
StifleForNewNodes(r) ==
    IF \E k \in 1..Len(r.newNodes) : r.newNodes[k] = r.node
    THEN [Log(r, "getSiteConfig") EXCEPT !.confirmDeployment = FALSE]
    ELSE r

\* Lines 77-98.
FromLine77(r, b) ==
    LET r1 == StifleForNewNodes(r)
    IN  IF r1.siteConfig # NoConfig
        THEN FromLine100(r1, b)
        ELSE [Log(r1, "getSiteConfig") EXCEPT !.pc = "getSiteConfig"]

\* Lines 59-66: register the listener and ask for the default web app.
FromLine59(r, b) ==
    IF r.node = NoNode
    THEN [Log(r, "onTreeItemCreate") EXCEPT
             !.listener = TRUE, !.pc = "getDefaultWebAppToDeploy"]
    ELSE FromLine77(r, b)

\* Faulty variant: the selection ends and the listener stays registered.
DisposeLeavesListener(r) == Log(r, "dispose")

\* Lines 72-74: the finally block of the selection.
Dispose(r) == [Log(r, "dispose") EXCEPT !.listener = FALSE]

(***************************************************************************)
(* showWorkspaceFoldersQuickPick (util.ts): the outcomes of its two         *)
(* prompts.  No pick throws with cancelStep showWorkspaceFolders; Browse    *)
(* and no folder throws with cancelStep showWorkspaceFoldersBrowse; Browse  *)
(* returns any folder; a picked workspace folder returns that folder,       *)
(* joined with its sub path setting when there is one (a path inside).      *)
(***************************************************************************)
showWorkspaceFoldersQuickPick ==
    { [thrown |-> TRUE, cancelStep |-> "showWorkspaceFolders", path |-> Unset],
      [thrown |-> TRUE, cancelStep |-> "showWorkspaceFoldersBrowse", path |-> Unset] }
    \cup { [thrown |-> FALSE, cancelStep |-> Unset, path |-> p] : p \in Paths }

\* getDeployFsPath: the path of a Uri target, else the folder the user picks.
getDeployFsPath(target) ==
    IF target.kind = "uri"
    THEN { [thrown |-> FALSE, cancelStep |-> Unset, path |-> target.path] }
    ELSE showWorkspaceFoldersQuickPick

\* getDefaultWebAppToDeploy: the node the defaultWebAppToDeploy setting names, if it
\* is in the tree; NoNode (undefined) otherwise.
getDefaultWebAppToDeploy == IF defaultWebAppToDeploy \in exists THEN defaultWebAppToDeploy ELSE NoNode

(***************************************************************************)
(* The actions of deploy(): one per await, taken when the awaited call     *)
(* settles, running to the next await.                                     *)
(***************************************************************************)
Set(i, r) == inv' = [inv EXCEPT ![i] = r]

\* Lines 30-41, up to the first await.
DeployEntry(i) ==
    /\ inv[i].pc = "start"
    /\ LET r == inv[i]
       IN  IF r.target.kind = "item"
           THEN Set(i, [Log(r, "getSiteConfig") EXCEPT
                           !.node = r.target.site, !.pc = "getSiteConfigEarly"])
           ELSE Set(i, [r EXCEPT !.pc = "getDeployFsPath"])
    /\ UNCHANGED <<exists, defaultWebAppToDeploy, policyVars, utilVars>>

\* Line 40 settles; lines 43-48 call getDeployFsPath.
GetSiteConfigEarly(i) ==
    /\ inv[i].pc = "getSiteConfigEarly"
    /\ \/ \E cfg \in SiteConfigs :
             Set(i, [inv[i] EXCEPT !.siteConfig = cfg, !.pc = "getDeployFsPath"])
       \/ Set(i, Throw(inv[i], "RemoteCallFailed"))
    /\ UNCHANGED <<exists, defaultWebAppToDeploy, policyVars, utilVars>>

\* Faulty variant: no check of the workspace (lines 51-53 missing).
CheckWorkspaceMissing(r, path, b) ==
    FromLine59([r EXCEPT !.deployFsPath = path,
                         !.workspace = getContainingWorkspace(path)], b)

\* Line 48 settles; lines 49-57: the workspace check.
CheckWorkspace(r, path, b) ==
    IF getContainingWorkspace(path) = Unset
    THEN Throw([r EXCEPT !.deployFsPath = path], "NoWorkspaceFound")
    ELSE FromLine59([r EXCEPT !.deployFsPath = path,
                              !.workspace = getContainingWorkspace(path)], b)

GetDeployFsPath(i) ==
    /\ inv[i].pc = "getDeployFsPath"
    /\ \E o \in getDeployFsPath(inv[i].target), b \in BOOLEAN :
          IF o.thrown
          THEN Set(i, Throw([inv[i] EXCEPT !.cancelStep = o.cancelStep], "UserCancelled"))
          ELSE Set(i, CheckWorkspace(inv[i], o.path, b))
    /\ UNCHANGED <<exists, defaultWebAppToDeploy, policyVars, utilVars>>

\* Line 66, left operand settles: a default node ends the selection (finally,
\* line 73), no default shows the picker; an error goes through catch and finally.
GetDefaultWebAppToDeploy(i) ==
    /\ inv[i].pc = "getDefaultWebAppToDeploy"
    /\ \/ /\ getDefaultWebAppToDeploy # NoNode
          /\ \E b \in BOOLEAN :
                Set(i, FromLine77(Dispose([inv[i] EXCEPT
                          !.node = getDefaultWebAppToDeploy,
                          !.deployedWithConfigs = TRUE]), b))
       \/ /\ getDefaultWebAppToDeploy = NoNode
          /\ Set(i, [Log(inv[i], "showTreeItemPicker") EXCEPT !.pc = "showTreeItemPicker"])
       \/ Set(i, Throw(Dispose(inv[i]), "RemoteCallFailed"))
    /\ UNCHANGED <<exists, defaultWebAppToDeploy, policyVars, utilVars>>

\* Line 66, right operand settles: a pick, a cancellation (lines 68-71) or an error.
ShowTreeItemPicker(i) ==
    /\ inv[i].pc = "showTreeItemPicker"
    /\ \/ \E s \in exists, b \in BOOLEAN :
             Set(i, FromLine77(Dispose([inv[i] EXCEPT !.node = s]), b))
       \/ Set(i, Throw(Dispose([inv[i] EXCEPT !.cancelStep = "showTreeItemPicker"]),
                       "UserCancelled"))
       \/ Set(i, Throw(Dispose(inv[i]), "RemoteCallFailed"))
    /\ UNCHANGED <<exists, defaultWebAppToDeploy, policyVars, utilVars>>

\* Lines 60-63: a web app is created; every registered listener records it.
OnTreeItemCreate(r, s) ==
    IF r.listener THEN [r EXCEPT !.newNodes = Append(@, s)] ELSE r

CreateSite(s) ==
    /\ s \notin exists
    /\ \E j \in Inv : inv[j].pc # "idle" /\ ~Terminal(inv[j])
    /\ exists' = exists \cup {s}
    /\ inv' = [j \in Inv |-> OnTreeItemCreate(inv[j], s)]
    /\ UNCHANGED <<defaultWebAppToDeploy, policyVars, utilVars>>

\* Line 98 settles.
GetSiteConfig(i) ==
    /\ inv[i].pc = "getSiteConfig"
    /\ \/ \E cfg \in SiteConfigs, b \in BOOLEAN :
             Set(i, FromLine100([inv[i] EXCEPT !.siteConfig = cfg], b))
       \/ Set(i, Throw(inv[i], "RemoteCallFailed"))
    /\ UNCHANGED <<exists, defaultWebAppToDeploy, policyVars, utilVars>>

\* Line 101 settles: found says whether an artifact file was found (line 102).
FindFilesByFileExtension(i) ==
    /\ inv[i].pc = "findFilesByFileExtension"
    /\ \E found \in BOOLEAN :
          IF found
          THEN Set(i, [Log(inv[i], "showQuickPick") EXCEPT !.pc = "showQuickPick"])
          ELSE Set(i, [Log(inv[i], "configureJavaSEAppSettings") EXCEPT
                          !.pc = "configureJavaSEAppSettings"])
    /\ UNCHANGED <<exists, defaultWebAppToDeploy, policyVars, utilVars>>

\* Line 105 settles: the artifact picked, or a cancellation.
ShowQuickPick(i) ==
    /\ inv[i].pc = "showQuickPick"
    /\ \/ Set(i, [Log(inv[i], "configureJavaSEAppSettings") EXCEPT
                     !.deployFsPath = "artifact", !.pc = "configureJavaSEAppSettings"])
       \/ Set(i, Throw(inv[i], "UserCancelled"))
    /\ UNCHANGED <<exists, defaultWebAppToDeploy, policyVars, utilVars>>

\* Line 107 settles.
ConfigureJavaSEAppSettings(i) ==
    /\ inv[i].pc = "configureJavaSEAppSettings"
    /\ \/ \E b \in BOOLEAN : Set(i, FromLine111(inv[i], b))
       \/ Set(i, Throw(inv[i], "RemoteCallFailed"))
    /\ UNCHANGED <<exists, defaultWebAppToDeploy, policyVars, utilVars>>

\* Faulty variant: the build prompt is for every stack.
PromptsScmDoBuildDeployAnyStack(fx) == fx # NoFx

\* Lines 114-120: the build prompt is for node and python stacks only.
PromptsScmDoBuildDeploy(fx) ==
    \/ startsWith(toLowerCase(fx), LinuxRuntimesNode)
    \/ startsWith(toLowerCase(fx), LinuxRuntimesPython)

\* Line 113, pathExists settles: e says whether a .deployment file exists.
PathExists(i) ==
    /\ inv[i].pc = "pathExists"
    /\ \E e \in BOOLEAN :
          IF ~e /\ PromptsScmDoBuildDeploy(inv[i].siteConfig.linuxFxVersion)
          THEN Set(i, [Log(inv[i], "promptScmDoBuildDeploy") EXCEPT
                          !.pc = "promptScmDoBuildDeploy"])
          ELSE Set(i, FromLine125(inv[i]))
    /\ UNCHANGED <<exists, defaultWebAppToDeploy, policyVars, utilVars>>

\* Line 117 or 119 settles.
PromptScmDoBuildDeploy(i) ==
    /\ inv[i].pc = "promptScmDoBuildDeploy"
    /\ \/ Set(i, FromLine125(inv[i]))
       \/ Set(i, Throw(inv[i], "UserCancelled"))
    /\ UNCHANGED <<exists, defaultWebAppToDeploy, policyVars, utilVars>>

\* Line 137 settles; line 138 shows the modal.
Delay(i) ==
    /\ inv[i].pc = "delay"
    /\ Set(i, [Log(inv[i], "showWarningMessage") EXCEPT !.pc = "showWarningMessage"])
    /\ UNCHANGED <<exists, defaultWebAppToDeploy, policyVars, utilVars>>

\* Lines 128-134: the buttons of the modal.
Items(r) ==
    {"Deploy", "Cancel"} \cup (IF r.deployedWithConfigs THEN {"Reset default"} ELSE {})

\* Faulty variant: Cancel comes back as a button like the others and the deploy goes on.
AnsweredCancelGoesOn(r, a) ==
    LET r1 == Log([r EXCEPT !.answer = a], a)
    IN  CASE a = "Reset default" ->
                [Log(r1, "openTextDocument") EXCEPT !.pc = "openTextDocument"]
          [] OTHER -> FromLine152([r1 EXCEPT !.cancelStep = ""])

\* Faulty variant: line 149 missing, the marker stays after Deploy.
AnsweredKeepsMarker(r, a) ==
    LET r1 == Log([r EXCEPT !.answer = a], a)
    IN  CASE a = "Cancel" -> Throw(r1, "UserCancelled")
          [] a = "Reset default" ->
                [Log(r1, "openTextDocument") EXCEPT !.pc = "openTextDocument"]
          [] OTHER -> FromLine152(r1)

\* Line 138 settles with the button pressed.  ext.ui.showWarningMessage throws
\* UserCancelledError for Cancel (and for a dismissed modal); lines 139-150.
Answered(r, a) ==
    LET r1 == Log([r EXCEPT !.answer = a], a)
    IN  CASE a = "Cancel" -> Throw(r1, "UserCancelled")
          [] a = "Reset default" ->
                [Log(r1, "openTextDocument") EXCEPT !.pc = "openTextDocument"]
          [] OTHER -> FromLine152([r1 EXCEPT !.cancelStep = ""])

ShowWarningMessage(i) ==
    /\ inv[i].pc = "showWarningMessage"
    /\ \E a \in Items(inv[i]) :
          /\ a = "Reset default" => i < MaxInv
          /\ Set(i, Answered(inv[i], a))
    /\ UNCHANGED <<exists, defaultWebAppToDeploy, policyVars, utilVars>>

\* Line 141 settles; line 142 is not awaited; line 143 writes the setting.
OpenTextDocument(i) ==
    /\ inv[i].pc = "openTextDocument"
    /\ \/ Set(i, [Log(inv[i], "showTextDocument") EXCEPT !.pc = "updateWorkspaceSetting"])
       \/ Set(i, Throw(inv[i], "Failed"))
    /\ UNCHANGED <<exists, defaultWebAppToDeploy, policyVars, utilVars>>

\* Lines 146-147: the command is run and awaited, then the call returns.  Nothing
\* reads siteConfig from here on: the record keeps it no longer.
FromLine146(r) ==
    [Log(r, "executeCommand") EXCEPT !.pc = "executeCommand", !.siteConfig = NoConfig]

\* Faulty variant: the command is run again without the default having been cleared.
UpdateWorkspaceSettingSkipped(i) ==
    /\ inv[i].pc = "updateWorkspaceSetting"
    /\ i < MaxInv
    /\ \E c \in BOOLEAN :
          inv' = [inv EXCEPT
              ![i] = FromLine146(inv[i]),
              ![i + 1] = Entered(c, [kind |-> "none", site |-> NoNode, path |-> Unset])]
    /\ UNCHANGED <<exists, defaultWebAppToDeploy, policyVars, utilVars>>

\* Line 143 settles: the default is cleared; line 146 runs the command
\* appService.Deploy, a new call of deploy() with no target.
UpdateWorkspaceSetting(i) ==
    /\ inv[i].pc = "updateWorkspaceSetting"
    /\ i < MaxInv
    /\ \/ /\ defaultWebAppToDeploy' = NoNode
          /\ \E c \in BOOLEAN :
                inv' = [inv EXCEPT
                    ![i] = FromLine146(Log(inv[i], "updateWorkspaceSetting")),
                    ![i + 1] = Entered(c, [kind |-> "none", site |-> NoNode, path |-> Unset])]
       \/ /\ Set(i, Throw(inv[i], "Failed"))
          /\ UNCHANGED defaultWebAppToDeploy
    /\ UNCHANGED <<exists, policyVars, utilVars>>

\* Line 146 settles when the command has ended; line 147 returns.  Whether the
\* command's own failure reaches executeCommand is the command registry's choice.
ExecuteCommand(i) ==
    /\ inv[i].pc = "executeCommand"
    /\ i < MaxInv
    /\ Terminal(inv[i + 1])
    /\ \/ Set(i, [inv[i] EXCEPT !.pc = "returned"])
       \/ /\ inv[i + 1].pc = "raised"
          /\ Set(i, Throw(inv[i], "CommandFailed"))
    /\ UNCHANGED <<exists, defaultWebAppToDeploy, policyVars, utilVars>>

\* Line 157 settles; lines 159-161 start the transfer.
RunPreDeployTask(i) ==
    /\ inv[i].pc = "runPreDeployTask"
    /\ \/ Set(i, [Log(inv[i], "deploy") EXCEPT !.pc = "deploy"])
       \/ Set(i, Throw(inv[i], "Failed"))
    /\ UNCHANGED <<exists, defaultWebAppToDeploy, policyVars, utilVars>>

\* Lines 160-162 settle; lines 164-188: the two notifications are not awaited.
AppserviceDeploy(i) ==
    /\ inv[i].pc = "deploy"
    /\ \/ Set(i, [Log(Log(inv[i], "showInformationMessage"), "validateWebSite") EXCEPT
                     !.detached = @ \cup {"showInformationMessage", "validateWebSite"},
                     !.pc = "returned"])
       \/ Set(i, Throw(inv[i], "RemoteCallFailed"))
    /\ UNCHANGED <<exists, defaultWebAppToDeploy, policyVars, utilVars>>

\* Faulty variant: a notification that fails makes the call fail.
DetachedFailureRaised(i, t) ==
    /\ t \in inv[i].detached
    /\ \E ok \in BOOLEAN :
          IF ok
          THEN Set(i, [inv[i] EXCEPT !.detached = @ \ {t}])
          ELSE Set(i, Throw([inv[i] EXCEPT !.detached = @ \ {t}, !.failed = @ \cup {t}],
                            "NotificationFailed"))
    /\ UNCHANGED <<exists, defaultWebAppToDeploy, policyVars, utilVars>>

\* One of the two notifications of lines 170-187, started and not awaited, settles.
\* ok says whether it succeeded: the status message with the action of the button
\* pressed (lines 171-177, a promise with no rejection handler), the validation
\* (lines 181-187, both outcomes ignored).  failed records the failures; nothing of
\* them reaches the call of deploy().
Detached(i, t) ==
    /\ t \in inv[i].detached
    /\ \E ok \in BOOLEAN :
          Set(i, [inv[i] EXCEPT !.detached = @ \ {t},
                                !.failed = IF ok THEN @ ELSE @ \cup {t}])
    /\ UNCHANGED <<exists, defaultWebAppToDeploy, policyVars, utilVars>>

DetachedCalls == {"showInformationMessage", "validateWebSite"}

(***************************************************************************)
(* setPreDeployTaskForDotnet(): the workspace it runs on.                  *)
(***************************************************************************)
Runs == 1..NumRuns
Subfolders == 1..NumSubfolders

workspaceFspath == "/ws"

\* The folder of the entry k of the workspace folder, relative to it.
FolderName(k) == "dir" \o ToString(k)

\* Values of the two string settings; Unset is a setting that has no value.
PreDeployTaskValues == {Unset, "", "make"}
DeploySubpathValues == {Unset, "", "out"}

\* <TargetFramework> of the .csproj files: no such tag, an empty tag, a framework.
TargetFrameworks == {Unset, "", "net6.0"}

FileSystems ==
    [ root : 0..MaxRootCsproj,
      sub : [Subfolders -> 0..MaxSubCsproj],
      targetFramework : TargetFrameworks ]

UserTask(label) == [label |-> label, command |-> "make", cwd |-> Unset]

InitialTasks ==
    { <<>>,
      <<UserTask("build")>>,
      <<UserTask("test"), UserTask("publish")>> }

\* JavaScript truthiness of a string setting: neither undefined nor empty.
Truthy(v) == v # Unset /\ v # ""

\* getWorkspaceSetting(key, fsPath): the value of the setting for the workspace.
getWorkspaceSetting(key) == settings[key]

\* The settings of a workspace that sets none of the three (the warning defaults to on).
NoSettings == [showPreDeployWarning |-> TRUE, preDeployTask |-> Unset, deploySubpath |-> Unset]

\* arg is the path the run was called with, atEntry and tasksAtEntry are the
\* settings and the task definitions as the run found them; afterAdoption says that
\* an earlier run had adopted the policy when this one started.
NotRunning ==
    [ pc |-> "idle", deployFsPath |-> Unset, arg |-> Unset, projectFiles |-> <<>>,
      pending |-> {}, csprojFile |-> Unset, targetFramework |-> Unset, input |-> "",
      deploySubpath |-> Unset, atEntry |-> NoSettings, tasksAtEntry |-> <<>>,
      afterAdoption |-> FALSE, error |-> "", log |-> <<>> ]

Ended(q) == q.pc \in {"returned", "raised"}

\* A run that adopted the policy: the user answered Yes and the run returned.
Adopted(q) == q.pc = "returned" /\ q.input = "Yes"

\* The locals of a call that has ended are gone; what the call was is kept.
Forget(q) ==
    IF Ended(q)
    THEN [NotRunning EXCEPT !.pc = q.pc, !.input = q.input, !.atEntry = q.atEntry,
                            !.tasksAtEntry = q.tasksAtEntry]
    ELSE q

SetRun(r, q) == run' = [run EXCEPT ![r] = q]

\* pathUtils.isPathEqual: the two paths name the same folder.
isPathEqual(p1, p2) == p1 = p2

Return(q) == [q EXCEPT !.pc = "returned"]

\* Lines 98-105, checkFolderForCsproj: one .csproj path per file found in the folder.
checkFolderForCsproj(folder, n) == [k \in 1..n |-> folder]

\* Faulty variant: the "." of a project in the workspace folder itself is kept.
PosixJoinKeepsDot(subfolder, rest) == subfolder \o "/" \o rest

\* Lines 52-55: dirname of the path relative to the workspace, then the posix join,
\* which drops a leading "." segment.
PosixJoin(subfolder, rest) == IF subfolder = "." THEN rest ELSE subfolder \o "/" \o rest

DeploySubpath(csprojFolder, targetFramework) ==
    PosixJoin(csprojFolder, "bin/Release/" \o targetFramework \o "/publish")

\* Lines 114-160, generateDotnetTasks.
DotnetTask(label, subfolder) ==
    [label |-> label, command |-> "dotnet", cwd |-> PosixJoin("${workspaceFolder}", subfolder)]

generateDotnetTasks(subfolder) ==
    << DotnetTask("build", subfolder), DotnetTask("publish", subfolder),
       DotnetTask("watch", subfolder) >>

\* Faulty variant: every dotnet task is added, whatever the existing labels.
MergeTasksAddsAll(existingTasks, dotnetTasks) == existingTasks \o dotnetTasks

\* Lines 63-71: the dotnet tasks whose label no existing task has, after the existing ones.
MergeTasks(existingTasks, dotnetTasks) ==
    existingTasks \o
    SelectSeq(dotnetTasks,
              LAMBDA t1 : ~\E k \in 1..Len(existingTasks) : existingTasks[k].label = t1.label)

\* Faulty variant: only the warning setting is respected.
RespectsOnlyTheWarning == ~getWorkspaceSetting("showPreDeployWarning")

\* Faulty variant: a deploySubpath setting is not respected.
RespectsAllButDeploySubpath ==
    \/ ~getWorkspaceSetting("showPreDeployWarning")
    \/ Truthy(getWorkspaceSetting("preDeployTask"))

\* Lines 22-27: respect an existing configuration.
RespectsExistingConfig ==
    \/ ~getWorkspaceSetting("showPreDeployWarning")
    \/ Truthy(getWorkspaceSetting("preDeployTask"))
    \/ Truthy(getWorkspaceSetting("deploySubpath"))

\* Faulty variant: the first project file, however many there are.
FirstProjectFile(projectFiles) ==
    IF Len(projectFiles) >= 1 THEN projectFiles[1] ELSE Unset

\* Line 96: one project file or none.
OnlyProjectFile(projectFiles) ==
    IF Len(projectFiles) = 1 THEN projectFiles[1] ELSE Unset

\* Lines 93-96 and 34-38: the scan has ended; a single .csproj file is read.
ScanEnded(q) ==
    LET q1 == [q EXCEPT !.csprojFile = OnlyProjectFile(q.projectFiles), !.pending = {}]
    IN  IF q1.csprojFile # Unset
        THEN [q1 EXCEPT !.pc = "readFile", !.log = Append(@, "readFile")]
        ELSE Return(q1)

(***************************************************************************)
(* The actions of setPreDeployTaskForDotnet(): one per await.  A run starts *)
(* when the runs before it have ended.                                      *)
(***************************************************************************)
PLog(q, e) == [q EXCEPT !.log = Append(@, e)]

PThrow(q, err) == [q EXCEPT !.pc = "raised", !.error = err]

\* Lines 17-34 and 80, 98-105: the checks of the settings and of the path, then
\* checkFolderForCsproj lists the workspace folder (readdirSync, at the call).
PolicyEntered(r, q) ==
    run' = [o \in Runs |-> IF o = r THEN q ELSE Forget(run[o])]

CalledWith(q, path) ==
    [q EXCEPT !.deployFsPath = path,
              !.arg = path,
              !.atEntry = settings,
              !.tasksAtEntry = tasks,
              !.afterAdoption = \E o \in Runs : Adopted(run[o])]

\* Faulty variant: the path of the request is not compared with the workspace folder.
setPreDeployTaskForDotnetAnyPath(q0, path) ==
    LET q == CalledWith(q0, path)
    IN  IF RespectsExistingConfig
        THEN {Return(q)}
        ELSE { [PLog(q, "readdirSync") EXCEPT
                   !.projectFiles = checkFolderForCsproj(".", fs.root),
                   !.pc = "checkFolderForCsproj"],
               PThrow(PLog(q, "readdirSync"), "ReadFailed") }

\* The call, up to its first await: what the run q0 called with path can be then.
setPreDeployTaskForDotnet(q0, path) ==
    LET q == CalledWith(q0, path)
    IN  IF RespectsExistingConfig
        THEN {Return(q)}
        ELSE IF ~isPathEqual(path, workspaceFspath)
        THEN {Return(q)}
        ELSE { [PLog(q, "readdirSync") EXCEPT
                   !.projectFiles = checkFolderForCsproj(".", fs.root),
                   !.pc = "checkFolderForCsproj"],
               PThrow(PLog(q, "readdirSync"), "ReadFailed") }

\* The paths a request can carry: the workspace folder, a folder inside it.
RequestPaths == {workspaceFspath, workspaceFspath \o "/" \o FolderName(1)}

PolicyEntry(r) ==
    /\ run[r].pc = "idle"
    /\ \A o \in Runs : o < r => Ended(run[o])
    /\ \E path \in RequestPaths :
          \E q \in setPreDeployTaskForDotnet(run[r], path) : PolicyEntered(r, q)
    /\ UNCHANGED <<settings, tasks, fs, written, deployVars, utilVars>>

\* Line 80 settles; lines 82-83: look one level deeper when the folder has none.
CheckFolderForCsproj(r) ==
    /\ run[r].pc = "checkFolderForCsproj"
    /\ IF Len(run[r].projectFiles) = 0
       THEN SetRun(r, [PLog(run[r], "readdir") EXCEPT !.pc = "readdir"])
       ELSE SetRun(r, ScanEnded(run[r]))
    /\ UNCHANGED <<settings, tasks, fs, written, deployVars, utilVars>>

\* Line 83 settles; lines 84-87 start one callback per entry, each awaiting stat.
Readdir(r) ==
    /\ run[r].pc = "readdir"
    /\ \/ SetRun(r, [run[r] EXCEPT !.pending = Subfolders, !.pc = "stat"])
       \/ SetRun(r, PThrow(run[r], "ReadFailed"))
    /\ UNCHANGED <<settings, tasks, fs, written, deployVars, utilVars>>

\* Lines 87-88 for the entry k: its stat settles and its folder is listed.  The
\* callback runs from the settled stat to the assignment of line 88 within one turn
\* of the event loop (checkFolderForCsproj has no asynchronous call), and the stat of
\* another entry settles in another turn.  Line 90: with the last entry the scan ends.
Stat(r, k) ==
    /\ run[r].pc = "stat"
    /\ k \in run[r].pending
    /\ \/ LET q == [PLog(run[r], "readdirSync") EXCEPT
                       !.projectFiles = @ \o checkFolderForCsproj(FolderName(k), fs.sub[k]),
                       !.pending = @ \ {k}]
          IN  SetRun(r, IF q.pending = {} THEN ScanEnded(q) ELSE q)
       \/ SetRun(r, PThrow(PLog(run[r], "readdirSync"), "ReadFailed"))
    /\ UNCHANGED <<settings, tasks, fs, written, deployVars, utilVars>>

\* Lines 109-111 settle; lines 39-47: no framework ends the run, else the prompt.
ReadFile(r) ==
    /\ run[r].pc = "readFile"
    /\ \/ LET q == [run[r] EXCEPT !.targetFramework = fs.targetFramework]
          IN  IF ~Truthy(q.targetFramework)
              THEN SetRun(r, Return(q))
              ELSE SetRun(r, [PLog(q, "showWarningMessage") EXCEPT !.pc = "showWarningMessage"])
       \/ SetRun(r, PThrow(run[r], "ReadFailed"))
    /\ UNCHANGED <<settings, tasks, fs, written, deployVars, utilVars>>

\* Line 47 settles with the button pressed (a dismissed modal throws); lines 48-57.
PolicyAnswered(q, input) ==
    CASE input = "Cancel" -> PThrow([q EXCEPT !.input = input], "UserCancelled")
      [] input = "No, and don't show again" ->
            [q EXCEPT !.input = input, !.pc = "updateShowPreDeployWarning"]
      [] OTHER ->
            [q EXCEPT !.input = input,
                      !.deploySubpath = DeploySubpath(q.csprojFile, q.targetFramework),
                      !.pc = "updatePreDeployTask"]

ShowWarningMessagePolicy(r) ==
    /\ run[r].pc = "showWarningMessage"
    /\ \E input \in {"Yes", "No, and don't show again", "Cancel"} :
          SetRun(r, PolicyAnswered(run[r], input))
    /\ UNCHANGED <<settings, tasks, fs, written, deployVars, utilVars>>

\* updateWorkspaceSetting(key, value, fsPath) has succeeded.
updateWorkspaceSetting(key, value) ==
    /\ settings' = [settings EXCEPT ![key] = value]
    /\ written' = written \cup {key}

\* Faulty variant: the run returns and the warning setting is not written.
UpdateShowPreDeployWarningLost(r) ==
    /\ run[r].pc = "updateShowPreDeployWarning"
    /\ SetRun(r, Return(run[r]))
    /\ UNCHANGED <<settings, written, tasks, fs, deployVars, utilVars>>

\* Line 49 settles.
UpdateShowPreDeployWarning(r) ==
    /\ run[r].pc = "updateShowPreDeployWarning"
    /\ \/ /\ updateWorkspaceSetting("showPreDeployWarning", FALSE)
          /\ SetRun(r, Return(PLog(run[r], "updateWorkspaceSetting")))
       \/ /\ SetRun(r, PThrow(run[r], "WriteFailed"))
          /\ UNCHANGED <<settings, written>>
    /\ UNCHANGED <<tasks, fs, deployVars, utilVars>>

\* Line 57 settles; line 58 writes the second setting.
UpdatePreDeployTask(r) ==
    /\ run[r].pc = "updatePreDeployTask"
    /\ \/ /\ updateWorkspaceSetting("preDeployTask", "publish")
          /\ SetRun(r, [PLog(run[r], "updateWorkspaceSetting") EXCEPT !.pc = "updateDeploySubpath"])
       \/ /\ SetRun(r, PThrow(run[r], "WriteFailed"))
          /\ UNCHANGED <<settings, written>>
    /\ UNCHANGED <<tasks, fs, deployVars, utilVars>>

\* Faulty variant: the labels are compared with the task definitions read when the
\* run started, and the tasks to add are appended to the present ones.
UpdateDeploySubpathStaleTasks(r) ==
    /\ run[r].pc = "updateDeploySubpath"
    /\ \/ /\ updateWorkspaceSetting("deploySubpath", run[r].deploySubpath)
          /\ tasks' = tasks \o SubSeq(MergeTasks(run[r].tasksAtEntry,
                                                 generateDotnetTasks(run[r].csprojFile)),
                                       Len(run[r].tasksAtEntry) + 1,
                                       Len(MergeTasks(run[r].tasksAtEntry,
                                                      generateDotnetTasks(run[r].csprojFile))))
          /\ SetRun(r, Return([PLog(PLog(run[r], "updateWorkspaceSetting"), "updateTasks") EXCEPT
                                  !.deployFsPath = workspaceFspath \o "/" \o run[r].deploySubpath]))
       \/ /\ SetRun(r, PThrow(run[r], "WriteFailed"))
          /\ UNCHANGED <<settings, written, tasks>>
    /\ UNCHANGED <<fs, deployVars, utilVars>>

\* Line 58 settles; lines 61-73: the path of the request and the task definitions.
\* Lines 63-73 have no await: the task definitions are read, merged and written back
\* before anything else runs.
UpdateDeploySubpath(r) ==
    /\ run[r].pc = "updateDeploySubpath"
    /\ \/ /\ updateWorkspaceSetting("deploySubpath", run[r].deploySubpath)
          /\ tasks' = MergeTasks(tasks, generateDotnetTasks(run[r].csprojFile))
          /\ SetRun(r, Return([PLog(PLog(run[r], "updateWorkspaceSetting"), "updateTasks") EXCEPT
                                  !.deployFsPath = workspaceFspath \o "/" \o run[r].deploySubpath]))
       \/ /\ SetRun(r, PThrow(run[r], "WriteFailed"))
          /\ UNCHANGED <<settings, written, tasks>>
    /\ UNCHANGED <<fs, deployVars, utilVars>>

(***************************************************************************)
(* parseAzureResourceId (util.ts).  A resource ID is a sequence of atoms:   *)
(* the character "/" or a piece of text without "/" ("a", "__proto__").    *)
(* Consecutive pieces of text are one segment, so <<"a", "a">> is the       *)
(* segment "aa"; a segment is the text "__proto__" when it is exactly that  *)
(* one atom.                                                                *)
(***************************************************************************)
Atoms == {"/", "a", "__proto__"}

ResourceIds == UNION { [1..n -> Atoms] : n \in 0..MaxIdLen }

\* String.length: the characters of the atoms.
RECURSIVE Length(_)
Length(str) ==
    IF str = <<>> THEN 0
    ELSE (IF Head(str) = "__proto__" THEN 9 ELSE 1) + Length(Tail(str))

\* String.split('/'): the segments between the separators; one more than there
\* are separators, the empty ones included.
RECURSIVE Split(_)
Split(str) ==
    IF str = <<>> THEN << <<>> >>
    ELSE LET rest == Split(Tail(str))
         IN  IF Head(str) = "/"
             THEN << <<>> >> \o rest
             ELSE << <<Head(str)>> \o Head(rest) >> \o Tail(rest)

\* Line 41, result[key] = value on the object literal of line 21: the assignment
\* defines or overwrites the own property key, except for the key "__proto__",
\* which is the accessor inherited from Object.prototype: its setter ignores a
\* value that is a string, and the object gets no such property.
Assign(result, key, value) ==
    IF key = <<"__proto__">>
    THEN result
    ELSE [k \in DOMAIN result \cup {key} |-> IF k = key THEN value ELSE result[k]]

\* Line 21: the object literal {} has no own property.
EmptyObject == <<>>

NotParsing ==
    [ pc |-> "idle", resourceId |-> <<>>, parts |-> <<>>, i |-> 0,
      result |-> EmptyObject, error |-> "" ]

\* Lines 20-31: the checks of the ID and of the number of its parts.
ParseEntry ==
    /\ parse.pc = "start"
    /\ LET resourceId == parse.resourceId
           parts == Split(Tail(resourceId))
       IN  IF resourceId = <<>> \/ Length(resourceId) < 2 \/ Head(resourceId) # "/"
           THEN parse' = [parse EXCEPT !.pc = "raised", !.error = "Invalid web app ID."]
           ELSE IF Len(parts) % 2 # 0
           THEN parse' = [parse EXCEPT !.parts = parts, !.pc = "raised",
                                       !.error = "Invalid web app ID."]
           ELSE parse' = [parse EXCEPT !.parts = parts, !.pc = "for"]
    /\ UNCHANGED <<deployVars, policyVars>>

\* Lines 33-42: one turn of the loop (i counts from 0, parts[i] is the part i + 1).
ParseFor ==
    /\ parse.pc = "for"
    /\ parse.i < Len(parse.parts)
    /\ LET key == parse.parts[parse.i + 1]
           value == parse.parts[parse.i + 2]
       IN  IF key = <<>> \/ value = <<>>
           THEN parse' = [parse EXCEPT !.pc = "raised", !.error = "Invalid web app ID."]
           ELSE parse' = [parse EXCEPT !.result = Assign(@, key, value), !.i = @ + 2]
    /\ UNCHANGED <<deployVars, policyVars>>

\* Lines 33 and 44: the loop has ended, the object is returned.
ParseReturn ==
    /\ parse.pc = "for"
    /\ parse.i >= Len(parse.parts)
    /\ parse' = [parse EXCEPT !.pc = "returned"]
    /\ UNCHANGED <<deployVars, policyVars>>

ParseAtRest == parse = NotParsing

DeployAtRest ==
    /\ inv = [j \in Inv |-> Idle]
    /\ exists = InitialSites
    /\ defaultWebAppToDeploy = NoNode

PolicyAtRest ==
    /\ run = [r \in Runs |-> NotRunning]
    /\ settings = NoSettings
    /\ tasks = <<>>
    /\ fs = [root |-> 0, sub |-> [k \in Subfolders |-> 0], targetFramework |-> Unset]
    /\ written = {}

(***************************************************************************)
(* SpecPolicy: runs of setPreDeployTaskForDotnet() on one workspace, whose  *)
(* files do not change.                                                     *)
(***************************************************************************)
InitPolicy ==
    /\ run = [r \in Runs |-> NotRunning]
    /\ settings \in [showPreDeployWarning : BOOLEAN,
                     preDeployTask : PreDeployTaskValues,
                     deploySubpath : DeploySubpathValues]
    /\ tasks \in InitialTasks
    /\ fs \in FileSystems
    /\ written = {}
    /\ DeployAtRest
    /\ ParseAtRest

NextPolicy ==
    \E r \in Runs :
       \/ PolicyEntry(r)
       \/ CheckFolderForCsproj(r)
       \/ Readdir(r)
       \/ \E k \in Subfolders : Stat(r, k)
       \/ ReadFile(r)
       \/ ShowWarningMessagePolicy(r)
       \/ UpdateShowPreDeployWarning(r)
       \/ UpdatePreDeployTask(r)
       \/ UpdateDeploySubpath(r)

SpecPolicy == InitPolicy /\ [][NextPolicy]_vars

(***************************************************************************)
(* SpecConcurrent: runs of setPreDeployTaskForDotnet() on one workspace    *)
(* that are in progress together (deploys started while another awaits),   *)
(* each resumed at one of its awaits at a time.  The workspace is one the   *)
(* policy acts on: nothing configured yet, one .csproj file to find.       *)
(***************************************************************************)
DetectableFileSystems ==
    { f \in FileSystems :
         /\ f.targetFramework = "net6.0"
         /\ f.root <= 1
         /\ \A k \in Subfolders : f.sub[k] <= 1
         /\ f.root + Cardinality({k \in Subfolders : f.sub[k] = 1}) = 1 }

InitConcurrent ==
    /\ run = [r \in Runs |-> NotRunning]
    /\ settings = NoSettings
    /\ tasks \in InitialTasks
    /\ fs \in DetectableFileSystems
    /\ written = {}
    /\ DeployAtRest
    /\ ParseAtRest

PolicyEntryConcurrent(r) ==
    /\ run[r].pc = "idle"
    /\ \E path \in RequestPaths :
          \E q \in setPreDeployTaskForDotnet(run[r], path) : SetRun(r, q)
    /\ UNCHANGED <<settings, tasks, fs, written, deployVars, utilVars>>

NextConcurrent ==
    \E r \in Runs :
       \/ PolicyEntryConcurrent(r)
       \/ CheckFolderForCsproj(r)
       \/ Readdir(r)
       \/ \E k \in Subfolders : Stat(r, k)
       \/ ReadFile(r)
       \/ ShowWarningMessagePolicy(r)
       \/ UpdateShowPreDeployWarning(r)
       \/ UpdatePreDeployTask(r)
       \/ UpdateDeploySubpath(r)

SpecConcurrent == InitConcurrent /\ [][NextConcurrent]_vars

(***************************************************************************)
(* Spec: one call of deploy() from the command or the tree, with the calls *)
(* it makes of the command itself.                                         *)
(***************************************************************************)
Init ==
    /\ exists = InitialSites
    /\ defaultWebAppToDeploy \in {NoNode} \cup exists
    /\ \E c \in BOOLEAN, t \in Targets :
          /\ t.kind = "item" => t.site \in exists
          /\ inv = [j \in Inv |-> IF j = 1 THEN Entered(c, t) ELSE Idle]
    /\ PolicyAtRest
    /\ ParseAtRest


Next ==
    \/ \E i \in Inv :
          \/ DeployEntry(i)
          \/ GetSiteConfigEarly(i)
          \/ GetDeployFsPath(i)
          \/ GetDefaultWebAppToDeploy(i)
          \/ ShowTreeItemPicker(i)
          \/ GetSiteConfig(i)
          \/ FindFilesByFileExtension(i)
          \/ ShowQuickPick(i)
          \/ ConfigureJavaSEAppSettings(i)
          \/ PathExists(i)
          \/ PromptScmDoBuildDeploy(i)
          \/ Delay(i)
          \/ ShowWarningMessage(i)
          \/ OpenTextDocument(i)
          \/ UpdateWorkspaceSetting(i)
          \/ ExecuteCommand(i)
          \/ RunPreDeployTask(i)
          \/ AppserviceDeploy(i)
          \/ \E t \in DetachedCalls : Detached(i, t)
    \/ \E s \in Sites : CreateSite(s)

Spec == Init /\ [][Next]_vars

(***************************************************************************)
(* SpecParse: one call of parseAzureResourceId, on any resource ID of up to *)
(* MaxIdLen atoms.                                                          *)
(***************************************************************************)
InitParse ==
    /\ \E resourceId \in ResourceIds :
          parse = [NotParsing EXCEPT !.pc = "start", !.resourceId = resourceId]
    /\ DeployAtRest
    /\ PolicyAtRest

NextParse == ParseEntry \/ ParseFor \/ ParseReturn

SpecParse == InitParse /\ [][NextParse]_vars

(***************************************************************************)
(* Properties of deploy(), checked under Spec.                             *)
(***************************************************************************)
Selected(r) == Did(r, "onTreeItemCreate") \/ Did(r, "showTreeItemPicker")
Transferred(r) == Did(r, "runPreDeployTask") \/ Did(r, "deploy")

C2_NoModalForGitDeployments ==
    \A i \in Inv :
       inv[i].arg /\ inv[i].siteConfig.scmType \in {"LocalGit", "GitHub"} =>
          ~Did(inv[i], "showWarningMessage")

\* C3: with no target handle passed, when the node selected is one whose creation
\* event fired during the selection, the confirmation modal is never shown in that
\* call, even if it was made with confirmDeployment = true.
C3_NewNodeSkipsConfirmation ==
    \A i \in Inv :
       /\ inv[i].target.kind # "item"
       /\ inv[i].node # NoNode
       /\ \E k \in 1..Len(inv[i].newNodes) : inv[i].newNodes[k] = inv[i].node
       => /\ ~Did(inv[i], "showWarningMessage")
          /\ inv[i].pc \notin {"delay", "showWarningMessage"}

C3_Witness ==
    \E i \in Inv :
       /\ inv[i].arg
       /\ inv[i].target.kind # "item"
       /\ \E k \in 1..Len(inv[i].newNodes) : inv[i].newNodes[k] = inv[i].node
       /\ inv[i].siteConfig.scmType = "None"
       /\ inv[i].pc = "deploy"

\* C4: once the gate is entered (the marker is set, line 127), the answer is at most
\* one of Deploy, Reset default, Cancel and exactly one when the call has ended past
\* the modal; the pre-deploy task and the transfer start only after the answer Deploy,
\* and never after Cancel or Reset default.
GateEntered(r) == r.pc = "delay" \/ Did(r, "showWarningMessage")

Answers(r) == Count(r, "Deploy") + Count(r, "Reset default") + Count(r, "Cancel")

C4_GateOrdersTheTransfer ==
    \A i \in Inv :
       GateEntered(inv[i]) =>
          /\ Answers(inv[i]) <= 1
          /\ inv[i].pc \in {"delay", "showWarningMessage"} =>
                Answers(inv[i]) = 0 /\ ~Transferred(inv[i])
          /\ inv[i].pc \notin {"delay", "showWarningMessage"} =>
                Answers(inv[i]) = 1 /\ Did(inv[i], inv[i].answer)
          /\ Transferred(inv[i]) =>
                /\ inv[i].answer = "Deploy"
                /\ Before(inv[i], "Deploy", "runPreDeployTask")
                /\ Before(inv[i], "runPreDeployTask", "deploy")
          /\ inv[i].answer \in {"Cancel", "Reset default"} => ~Transferred(inv[i])

C4_Witness ==
    \E i \in Inv :
       /\ GateEntered(inv[i])
       /\ inv[i].answer = "Deploy"
       /\ Did(inv[i], "deploy")
       /\ inv[i].pc = "returned"

\* C5: after the answer Reset default, the command is run again only once the default
\* web app setting has been cleared, it is run exactly once and with no target, and
\* the call returns having transferred nothing.
C5_ResetDefaultRestarts ==
    \A i \in Inv :
       inv[i].answer = "Reset default" =>
          /\ ~Transferred(inv[i])
          /\ Count(inv[i], "executeCommand") <= 1
          /\ Before(inv[i], "updateWorkspaceSetting", "executeCommand")
          /\ Did(inv[i], "executeCommand") =>
                /\ i < MaxInv
                /\ inv[i + 1].pc # "idle"
                /\ inv[i + 1].target.kind = "none"
                /\ inv[i + 1].pc = "start" => defaultWebAppToDeploy = NoNode
          /\ inv[i].pc = "returned" => Count(inv[i], "executeCommand") = 1

C5_Witness ==
    \E i \in Inv :
       /\ inv[i].answer = "Reset default"
       /\ inv[i].pc = "returned"
       /\ Terminal(inv[i + 1])

\* C6: after the answer Cancel the call has ended with cancelStep naming the
\* confirmation step, with no pre-deploy task, no transfer and no completion
\* notification; after the answer Deploy the marker is cleared, from before the
\* pre-deploy task and the transfer on.
C6_CancelMarker ==
    \A i \in Inv :
       /\ inv[i].answer = "Cancel" =>
             /\ inv[i].pc = "raised" /\ inv[i].error = "UserCancelled"
             /\ inv[i].cancelStep = "confirmDestructiveDeployment"
             /\ ~Transferred(inv[i])
             /\ ~Did(inv[i], "showInformationMessage")
       /\ inv[i].answer = "Deploy" => inv[i].cancelStep = ""

C6_Witness ==
    \E i \in Inv : inv[i].answer = "Cancel" /\ inv[i].pc = "raised"

\* C14: the listener of a call is registered only while the call awaits the default
\* web app or the picker, so it is deregistered once the selection has ended (a node
\* returned or picked, a cancellation, another error); a call whose listener is not
\* registered records no creation event.
SelectionAwaits == {"getDefaultWebAppToDeploy", "showTreeItemPicker"}

C14_ListenerDisposed ==
    [][\A i \in Inv :
          /\ inv'[i].listener => inv'[i].pc \in SelectionAwaits
          /\ inv'[i].pc \notin SelectionAwaits /\ Did(inv'[i], "onTreeItemCreate") =>
                Did(inv'[i], "dispose")
          /\ ~inv[i].listener => inv'[i].newNodes = inv[i].newNodes]_vars

C14_Witness ==
    \E i \in Inv :
       /\ Did(inv[i], "dispose") /\ ~inv[i].listener
       /\ inv[i].pc = "raised" /\ inv[i].cancelStep = "showTreeItemPicker"
       /\ exists # InitialSites
       /\ inv[i].newNodes = <<>>

\* C15: the status message and the validation are started only when the transfer
\* has succeeded, and the call has returned as soon as they are started, both still
\* pending; a failure of either leaves the call returned, with no error.
C15_NotificationsDetached ==
    \A i \in Inv :
       /\ inv[i].pc # "returned" => inv[i].detached = {} /\ inv[i].failed = {}
       /\ Did(inv[i], "showInformationMessage") \/ Did(inv[i], "validateWebSite") =>
             /\ Did(inv[i], "deploy")
             /\ inv[i].pc = "returned" /\ inv[i].error = ""
       /\ inv[i].failed # {} => inv[i].pc = "returned" /\ inv[i].error = ""

C15_Witness ==
    \E i \in Inv :
       /\ inv[i].pc = "returned"
       /\ inv[i].detached = {}
       /\ inv[i].failed = DetachedCalls

\* C16: a call whose site has no linuxFxVersion, or one that starts with none of
\* java, node, python whatever the case of its letters, shows no artifact prompt and
\* no build-during-deploy prompt; the artifact prompt is for JAVA|8 only, the build
\* prompt for NODE|8 (upper case) and python|3 only.
C16_GenericStack ==
    \A i \in Inv :
       LET fx == inv[i].siteConfig.linuxFxVersion
       IN  inv[i].siteConfig # NoConfig =>
              /\ fx \in {NoFx, <<"P", "H", "P", "|", "7">>} =>
                    /\ ~Did(inv[i], "showQuickPick")
                    /\ ~Did(inv[i], "configureJavaSEAppSettings")
                    /\ ~Did(inv[i], "promptScmDoBuildDeploy")
                    /\ inv[i].pc # "findFilesByFileExtension"
              /\ Did(inv[i], "showQuickPick") => fx = <<"J", "A", "V", "A", "|", "8">>
              /\ Did(inv[i], "promptScmDoBuildDeploy") =>
                    fx \in {<<"N", "O", "D", "E", "|", "8">>, <<"p", "y", "t", "h", "o", "n", "|", "3">>}

C16_Witness ==
    \E i \in Inv :
       /\ inv[i].siteConfig # NoConfig
       /\ inv[i].siteConfig.linuxFxVersion = <<"P", "H", "P", "|", "7">>
       /\ inv[i].siteConfig.scmType = "None"
       /\ Did(inv[i], "pathExists")
       /\ Did(inv[i], "runPreDeployTask")

\* C19: a call that has returned has no cancel step in cancelStep: the marker was
\* never set, or was cleared.
C19_NoMarkerOnReturn ==
    \A i \in Inv : inv[i].pc = "returned" => inv[i].cancelStep \in {Unset, ""}

(***************************************************************************)
(* Properties of setPreDeployTaskForDotnet(), checked under SpecPolicy.    *)
(***************************************************************************)
Prompted(q) == \E k \in 1..Len(q.log) : q.log[k] = "showWarningMessage"
Persisted(q) ==
    \E k \in 1..Len(q.log) : q.log[k] \in {"updateWorkspaceSetting", "updateTasks"}
Scanned(q) ==
    \E k \in 1..Len(q.log) : q.log[k] \in {"readdirSync", "readdir", "readFile"}

\* C7: of preDeployTask and deploySubpath the policy has written both or neither, in
\* every state, those between two awaits and those after a failed write included.
C7_BothOrNeither ==
    ("preDeployTask" \in written) <=> ("deploySubpath" \in written)

\* C8: a run that starts after a run in which the user answered Yes has returned
\* shows no prompt, writes no setting and changes no task definition.
C8_IdempotentOnceAdopted ==
    \A r \in Runs :
       run[r].afterAdoption =>
          /\ run[r].pc = "returned"
          /\ ~Prompted(run[r]) /\ ~Persisted(run[r]) /\ ~Scanned(run[r])
          /\ settings = run[r].atEntry

C8_Witness ==
    \E r \in Runs :
       /\ run[r].afterAdoption
       /\ run[r].pc = "returned"
       /\ run[r].deployFsPath = workspaceFspath
       /\ "deploySubpath" \in written

\* C9, as stated: a run that finds a non-empty preDeployTask, or any deploySubpath
\* value, or the warning off, returns without scanning, reading, prompting or
\* writing.
SkipsEverything(q) ==
    /\ q.pc = "returned"
    /\ ~Scanned(q) /\ ~Prompted(q) /\ ~Persisted(q)

C9_SkipsOnAnyDeploySubpath ==
    \A r \in Runs :
       /\ run[r].pc # "idle"
       /\ \/ Truthy(run[r].atEntry.preDeployTask)
          \/ run[r].atEntry.deploySubpath # Unset
          \/ ~run[r].atEntry.showPreDeployWarning
       => SkipsEverything(run[r])

\* C9, amended: a run that finds a non-empty preDeployTask, or a non-empty
\* deploySubpath, or the warning off, returns without scanning, reading, prompting
\* or writing.
C9_RespectsExistingConfig ==
    \A r \in Runs :
       /\ run[r].pc # "idle"
       /\ \/ Truthy(run[r].atEntry.preDeployTask)
          \/ Truthy(run[r].atEntry.deploySubpath)
          \/ ~run[r].atEntry.showPreDeployWarning
       => SkipsEverything(run[r])

C9_Witness ==
    \E r \in Runs :
       /\ run[r].pc = "returned"
       /\ run[r].atEntry.deploySubpath = "out"
       /\ run[r].atEntry.preDeployTask = Unset
       /\ run[r].atEntry.showPreDeployWarning
       /\ run[r].deployFsPath = workspaceFspath
       /\ fs.root = 1 /\ fs.targetFramework = "net6.0"

\* The .csproj files of the subfolders S together.
RECURSIVE SubCsproj(_)
SubCsproj(S) ==
    IF S = {} THEN 0
    ELSE LET k == CHOOSE x \in S : TRUE IN fs.sub[k] + SubCsproj(S \ {k})

\* C10, as stated: when the workspace folder and its immediate subfolders together
\* hold two or more .csproj files, however distributed, a run shows no prompt and
\* persists nothing.
C10_TwoOrMoreAnywhere ==
    \A r \in Runs :
       fs.root + SubCsproj(Subfolders) >= 2 =>
          /\ ~Prompted(run[r]) /\ ~Persisted(run[r])
          /\ run[r].pc # "idle" => settings = run[r].atEntry

\* C10, amended: when the scan finds two or more .csproj files, which is when the
\* workspace folder itself holds two or more, or holds none and its immediate
\* subfolders together hold two or more (the subfolders are scanned only when the
\* folder itself holds none), a run shows no prompt and persists nothing.
C10_TwoOrMoreFound ==
    \A r \in Runs :
       \/ fs.root >= 2
       \/ fs.root = 0 /\ SubCsproj(Subfolders) >= 2
       => /\ ~Prompted(run[r]) /\ ~Persisted(run[r])
          /\ run[r].pc # "idle" => settings = run[r].atEntry

C10_Witness ==
    \E r \in Runs :
       /\ fs.root = 0 /\ SubCsproj(Subfolders) >= 2
       /\ fs.targetFramework = "net6.0"
       /\ run[r].pc = "returned"
       /\ Len(run[r].projectFiles) >= 2

\* The subpath lines 52-55 are to give: bin/Release/<framework>/publish under the
\* folder of the one .csproj file, that folder being the workspace folder or dir<k>.
TheProjectFolder ==
    IF fs.root = 1 THEN ""
    ELSE LET k == CHOOSE x \in Subfolders : fs.sub[x] = 1
         IN  "dir" \o ToString(k) \o "/"

ExpectedSubpath == TheProjectFolder \o "bin/Release/" \o fs.targetFramework \o "/publish"

\* The locals of the run are those of its call (no later run has started).
Live(q) == q.arg # Unset

\* C11: when a run in which the user answered Yes has returned, the preDeployTask
\* setting is "publish", the deploySubpath setting is the folder of the one .csproj
\* file, relative to the workspace folder, joined with bin/Release/<framework>/publish,
\* and the path of the request is the workspace folder joined with that subpath.
C11_SubpathOfTheProject ==
    \A r \in Runs :
       Adopted(run[r]) =>
          /\ settings.preDeployTask = "publish"
          /\ settings.deploySubpath = ExpectedSubpath
          /\ Live(run[r]) =>
                run[r].deployFsPath = workspaceFspath \o "/" \o ExpectedSubpath

C11_Witness ==
    \E r \in Runs :
       /\ Adopted(run[r]) /\ Live(run[r])
       /\ fs.root = 1
       /\ run[r].deployFsPath = "/ws/bin/Release/net6.0/publish"

DotnetLabels == {"build", "publish", "watch"}

CountLabel(ts, label) == Cardinality({k \in 1..Len(ts) : ts[k].label = label})

\* C12: when a run in which the user answered Yes has returned, the task definitions
\* start with those the run found, unchanged and in their order; what follows them
\* are dotnet tasks, one for each of build, publish and watch that no task found had
\* as its label, and none for a label that a task found had.
C12_TasksMerged ==
    \A r \in Runs :
       Adopted(run[r]) =>
          LET old == run[r].tasksAtEntry
          IN  /\ Len(tasks) >= Len(old)
              /\ SubSeq(tasks, 1, Len(old)) = old
              /\ \A k \in (Len(old) + 1)..Len(tasks) :
                    tasks[k].label \in DotnetLabels /\ tasks[k].command = "dotnet"
              /\ \A label \in DotnetLabels :
                    CountLabel(tasks, label) =
                       (IF CountLabel(old, label) = 0 THEN 1 ELSE CountLabel(old, label))

C12_Witness ==
    \E r \in Runs :
       /\ Adopted(run[r])
       /\ run[r].tasksAtEntry = <<UserTask("test"), UserTask("publish")>>
       /\ Len(tasks) = 4

\* C13: no run ends by raising a failure of listing a folder or of reading a .csproj
\* file to its caller: such a failure ends the run normally, as nothing detected.
C13_ReadFailuresAreNoDetection ==
    \A r \in Runs : ~(run[r].pc = "raised" /\ run[r].error = "ReadFailed")

\* C17: when a run in which the user answered "No, and don't show again" has
\* returned, the warning setting is off, the preDeployTask and deploySubpath settings,
\* the task definitions and the path of the request are as the run found them, and
\* no later run shows a prompt or writes anything.
DontShowAgain(q) == q.pc = "returned" /\ q.input = "No, and don't show again"

C17_DontShowAgain ==
    \A r \in Runs :
       DontShowAgain(run[r]) =>
          /\ settings = [run[r].atEntry EXCEPT !.showPreDeployWarning = FALSE]
          /\ written = {"showPreDeployWarning"}
          /\ tasks = run[r].tasksAtEntry
          /\ Live(run[r]) => run[r].deployFsPath = run[r].arg
          /\ \A o \in Runs :
                o > r => ~Prompted(run[o]) /\ ~Persisted(run[o]) /\ ~Scanned(run[o])

C17_Witness ==
    \E r, o \in Runs :
       /\ DontShowAgain(run[r])
       /\ o > r
       /\ run[o].pc = "returned" /\ run[o].arg = workspaceFspath

\* C18: a run called with a path that is not the workspace folder returns without
\* scanning, prompting or writing: the settings, the task definitions and the path
\* of the request are as the run found them, whatever .csproj files there are.
C18_OtherPathSkips ==
    \A r \in Runs :
       Live(run[r]) /\ run[r].arg # workspaceFspath =>
          /\ SkipsEverything(run[r])
          /\ settings = run[r].atEntry
          /\ tasks = run[r].tasksAtEntry
          /\ run[r].deployFsPath = run[r].arg

C18_Witness ==
    \E r \in Runs :
       /\ Live(run[r]) /\ run[r].arg # workspaceFspath
       /\ run[r].pc = "returned"
       /\ run[r].atEntry = NoSettings
       /\ fs.root = 1 /\ fs.targetFramework = "net6.0"

(***************************************************************************)
(* Properties of runs in progress together, checked under SpecConcurrent.  *)
(***************************************************************************)
\* C20: however the steps of the runs on a workspace interleave, the task definitions
\* start with those any run found when it started, unchanged and in their order, and
\* hold each of the labels build, publish and watch at most once more than that run
\* found it.
C20_TasksUnderInterleaving ==
    \A r \in Runs :
       run[r].pc # "idle" =>
          LET old == run[r].tasksAtEntry
          IN  /\ Len(tasks) >= Len(old)
              /\ SubSeq(tasks, 1, Len(old)) = old
              /\ \A label \in DotnetLabels :
                    CountLabel(tasks, label) <= CountLabel(old, label) + 1

C20_Witness ==
    \E r, o \in Runs :
       /\ r # o
       /\ Adopted(run[r]) /\ Adopted(run[o])
       /\ Prompted(run[r]) /\ Prompted(run[o])
       /\ run[r].tasksAtEntry = <<UserTask("build")>>
       /\ run[o].tasksAtEntry = <<UserTask("build")>>
       /\ Len(tasks) = 3

(***************************************************************************)
(* Properties of parseAzureResourceId, checked under SpecParse.  What the  *)
(* call is to give is stated on the positions of the "/" in the ID.        *)
(***************************************************************************)
Slashes(id) == {k \in 1..Len(id) : id[k] = "/"}

\* The ID starts with "/" and what follows is an even number of segments, none
\* empty: no "/" at the end, no two "/" in a row, and as many segments as "/".
WellFormed(id) ==
    /\ Len(id) >= 1
    /\ id[1] = "/"
    /\ id[Len(id)] # "/"
    /\ \A k \in 1..(Len(id) - 1) : ~(id[k] = "/" /\ id[k + 1] = "/")
    /\ Cardinality(Slashes(id)) % 2 = 0

\* The position of the n-th "/" (that of the end of the ID past the last one).
SlashAt(id, n) ==
    IF n > Cardinality(Slashes(id)) THEN Len(id) + 1
    ELSE CHOOSE k \in Slashes(id) : Cardinality({j \in Slashes(id) : j <= k}) = n

\* The n-th segment: what stands between the n-th "/" and the next.
Segment(id, n) == SubSeq(id, SlashAt(id, n) + 1, SlashAt(id, n + 1) - 1)

OddPositions(id) == {n \in 1..Cardinality(Slashes(id)) : n % 2 = 1}

\* Each segment at an odd position mapped to the segment after it, the last
\* occurrence of a repeated key giving its value.
ExpectedMap(id) ==
    [ key \in {Segment(id, n) : n \in OddPositions(id)} |->
        LET last == CHOOSE n \in OddPositions(id) :
                       /\ Segment(id, n) = key
                       /\ \A m \in OddPositions(id) : Segment(id, m) = key => m <= n
        IN  Segment(id, last + 1) ]

Parsed == parse.pc \in {"returned", "raised"}

\* C21: a call of parseAzureResourceId that has ended has returned exactly when the
\* ID starts with "/" followed by an even number of non-empty segments, and the map
\* returned then has each odd-position segment as a key, with the segment after its
\* last occurrence as its value; for every other ID the call has raised the
\* invalid-ID error.
C21_ParsesWellFormedIds ==
    Parsed =>
       IF WellFormed(parse.resourceId)
       THEN parse.pc = "returned" /\ parse.result = ExpectedMap(parse.resourceId)
       ELSE parse.pc = "raised" /\ parse.error = "Invalid web app ID."

\* The same for the IDs none of whose keys is the text "__proto__".
NoProtoKey(id) ==
    WellFormed(id) => \A n \in OddPositions(id) : Segment(id, n) # <<"__proto__">>

ParsesOwnKeys ==
    Parsed /\ NoProtoKey(parse.resourceId) =>
       IF WellFormed(parse.resourceId)
       THEN parse.pc = "returned" /\ parse.result = ExpectedMap(parse.resourceId)
       ELSE parse.pc = "raised" /\ parse.error = "Invalid web app ID."

====
